---- MODULE Spec2Model ----
(***************************************************************************)
(* Model of the bag-of-tasks REST backend.  The repository holds four      *)
(* revisions of the same Express server:                                   *)
(*   "part_001"  src/unnamed/part_001          (no existence checks)        *)
(*   "index_a"   src/index.js lines 1-135      (lookup, stats error ignored)*)
(*   "index_b"   src/index.js lines 136-287    (adds minutes -> seconds)    *)
(*   "part_000"  src/unnamed/part_000          (lazy stats creation)        *)
(* The revision that is deployed is fixed at start-up (variable rev).      *)
(* Every gateway (supabase) call is one atomic step of the store; the code *)
(* of a handler between two awaits is part of the step of the first one.   *)
(***************************************************************************)
EXTENDS Integers, Sequences, FiniteSets, TLC

\* ------------------------------------------------------------- bounds
\* number of requests that may be in flight at once
NumReqs == 2
\* number of task rows the store ever assigns an id to
MaxId == 2
\* cap on the completed_tasks counter
MaxCompleted == 2

Reqs == 1..NumReqs
TaskIds == 1..MaxId
Revisions == {"part_001", "index_a", "index_b", "part_000"}

\* ------------------------------------------------------------- values
\* the stats table has no row with id 'default'
NoStats == -1
\* JS null / undefined for a task row
NoTask == [id |-> 0, title |-> "", duration |-> 0, tags |-> <<>>, created_at |-> 0]
NoError == "none"
\* error of a call that did not reach the store
Unavailable == "unavailable"
\* error of .single() when the query yields no row
NoRows == "no_rows"
\* error of an insert whose primary key exists already
Duplicate == "duplicate"
\* error of an insert whose duration is no integer (column duration is int)
InvalidInput == "invalid_input"

\* a JS value of req.body.duration: undefined, a number in hundredths, a string
\* that is no number ('abc'), or NaN
Undef == [t |-> "undefined", v |-> 0]
Num(hundredths) == [t |-> "number", v |-> hundredths]
Str == [t |-> "string", v |-> 0]
NaN == [t |-> "nan", v |-> 0]
\* the duration of a row whose duration is null
NullDuration == -1
DurationInputs == {Undef, Num(200)}
\* req.body.title: "" stands for a missing or empty title
TitleInputs == {"", "a"}
\* req.body.tags: not given, or a list
NoTags == [given |-> FALSE, list |-> <<>>]
Tags(l) == [given |-> TRUE, list |-> l]
TagInputs == {NoTags}
\* req.body.taskId / req.params.id: 0 stands for a missing id
TaskIdInputs == 0..MaxId

\* ------------------------------------------------------------- responses
NoResp == [status |-> 0, error |-> "", details |-> "", completedTasks |-> NoStats,
           task |-> NoTask, data |-> <<>>]
Json(status, completed, task, data) ==
  [status |-> status, error |-> "", details |-> "", completedTasks |-> completed,
   task |-> task, data |-> data]
Err(status, error, details) ==
  [status |-> status, error |-> error, details |-> details, completedTasks |-> NoStats,
   task |-> NoTask, data |-> <<>>]

\* ------------------------------------------------------------- gateway
Ids(tbl) == {t.id : t \in tbl}
Row(tbl, id) == CHOOSE t \in tbl : t.id = id

\* supabase.from('tasks').select('*').eq('id', id).single()
SelectTask(tbl, id, fail) ==
  IF fail THEN [data |-> NoTask, error |-> Unavailable]
  ELSE IF id \in Ids(tbl) THEN [data |-> Row(tbl, id), error |-> NoError]
  ELSE [data |-> NoTask, error |-> NoRows]

\* supabase.from('tasks').delete().eq('id', id): deleting no row is no error
DeleteTaskRow(tbl, id, fail) ==
  IF fail THEN [tasks |-> tbl, error |-> Unavailable]
  ELSE [tasks |-> {t \in tbl : t.id # id}, error |-> NoError]

\* a faulty update: it writes the constant 1 instead of adding 1 to the row
IncrementSetsOne(s, fail) ==
  IF fail THEN [stats |-> s, data |-> NoStats, error |-> Unavailable]
  ELSE IF s = NoStats THEN [stats |-> s, data |-> NoStats, error |-> NoRows]
  ELSE [stats |-> 1, data |-> 1, error |-> NoError]

\* supabase.from('stats').update({completed_tasks: increment}).eq('id','default')
\*   .select().single(): taken as the handler means it, the store adds 1 to the
\* row in one step (atomicIncrement of the gateway); a store that refuses the
\* call is the fail branch
UpdateIncrement(s, fail) ==
  IF fail THEN [stats |-> s, data |-> NoStats, error |-> Unavailable]
  ELSE IF s = NoStats THEN [stats |-> s, data |-> NoStats, error |-> NoRows]
  ELSE [stats |-> s + 1, data |-> s + 1, error |-> NoError]

\* a faulty insert: an upsert, which replaces the record that exists
InsertStatsUpsert(s, v, fail) ==
  IF fail THEN [stats |-> s, data |-> NoStats, error |-> Unavailable]
  ELSE [stats |-> v, data |-> v, error |-> NoError]

\* supabase.from('stats').insert([{id: 'default', completed_tasks: v}]).select().single()
InsertStats(s, v, fail) ==
  IF fail THEN [stats |-> s, data |-> NoStats, error |-> Unavailable]
  ELSE IF s # NoStats THEN [stats |-> s, data |-> NoStats, error |-> Duplicate]
  ELSE [stats |-> v, data |-> v, error |-> NoError]

\* supabase.from('stats').select('completed_tasks').eq('id', 'default').single()
SelectStats(s, fail) ==
  IF fail THEN [data |-> NoStats, error |-> Unavailable]
  ELSE IF s = NoStats THEN [data |-> NoStats, error |-> NoRows]
  ELSE [data |-> s, error |-> NoError]

\* the rows of tbl, newest first
RECURSIVE NewestFirst(_)
NewestFirst(tbl) ==
  IF tbl = {} THEN <<>>
  ELSE LET t == CHOOSE x \in tbl : \A y \in tbl : y.created_at <= x.created_at
       IN <<t>> \o NewestFirst(tbl \ {t})

\* supabase.from('tasks').select('*').order('created_at', {ascending: false})
SelectTasks(tbl, fail) ==
  IF fail THEN [data |-> <<>>, error |-> Unavailable]
  ELSE [data |-> NewestFirst(tbl), error |-> NoError]

\* supabase.from('tasks').insert([{title, duration, tags}]).select().single():
\* the store assigns id and created_at; duration is an int column, so a value
\* with a fraction (hundredths not a multiple of 100) is refused
InsertTask(tbl, id, title, hundredths, tags, fail) ==
  IF fail THEN [tasks |-> tbl, data |-> NoTask, error |-> Unavailable]
  ELSE IF hundredths % 100 # 0 THEN [tasks |-> tbl, data |-> NoTask, error |-> InvalidInput]
  ELSE LET t == [id |-> id, title |-> title, duration |-> hundredths \div 100,
                 tags |-> tags, created_at |-> id]
       IN [tasks |-> tbl \cup {t}, data |-> t, error |-> NoError]

\* the same insert with the duration as the handler passes it, any JS value: a
\* string that is no number is refused by the int column; NaN travels as JSON
\* null, which a column that admits null keeps and any other refuses
InsertDuration(tbl, id, title, d, tags, nullable, fail) ==
  IF d.t = "number" THEN InsertTask(tbl, id, title, d.v, tags, fail)
  ELSE IF fail THEN [tasks |-> tbl, data |-> NoTask, error |-> Unavailable]
  ELSE IF d.t = "nan" /\ nullable
  THEN LET t == [id |-> id, title |-> title, duration |-> NullDuration,
                 tags |-> tags, created_at |-> id]
       IN [tasks |-> tbl \cup {t}, data |-> t, error |-> NoError]
  ELSE [tasks |-> tbl, data |-> NoTask, error |-> InvalidInput]

\* ------------------------------------------------------------- state
VARIABLES
  rev,          \* the deployed revision
  tasks,        \* table tasks: a set of rows
  stats,        \* table stats: completed_tasks of row 'default', or NoStats
  nextId,       \* the next id the store assigns
  req,          \* the requests in flight, per slot
  initPc,       \* position of initializeData; "ended" when it returned or threw
  okById,       \* history: completeTask calls answered 200, per taskId
  incCount,     \* history: increments/creations applied per taskId
  plainDeleted  \* history: ids whose row a deleteTask call removed, answering 200

vars == <<rev, tasks, stats, nextId, req, initPc, okById, incCount, plainDeleted>>

IdleReq ==
  [op |-> "none", pc |-> "idle", taskId |-> 0, task |-> NoTask, statsData |-> NoStats,
   resp |-> NoResp,
   \* history of the call
   faulted |-> FALSE, found |-> FALSE, pre |-> NoStats, updated |-> FALSE,
   incremented |-> FALSE, othersInc |-> 0, delFailed |-> FALSE, removed |-> FALSE,
   again |-> FALSE,
   \* addTask: the body of the request, and whether the insert was issued
   title |-> "", duration |-> Undef, tags |-> NoTags, issued |-> FALSE,
   \* the number of responses sent
   sent |-> 0]

\* a slot is free when it holds no call, or the answer that was just sent; a
\* new call takes the lowest free slot (the slots are interchangeable)
FreeSlot(r) == req[r].pc \in {"idle", "done"}
Free(r) == FreeSlot(r) /\ \A q \in Reqs : q < r => ~FreeSlot(q)
\* an answer stays in its slot for one step: the next step of any call clears it
Settle(rq) == [q \in Reqs |-> IF rq[q].pc = "done" THEN IdleReq ELSE rq[q]]
InFlight(rq, r) == rq[r].pc \notin {"idle", "done"}

Init ==
  /\ rev \in Revisions
  /\ tasks = {}
  /\ stats \in {NoStats, 0}
  /\ nextId = 1
  /\ req = [r \in Reqs |-> IdleReq]
  /\ initPc = IF rev = "part_000" THEN "stats_check"
              ELSE IF rev = "part_001" THEN "tasks_check" ELSE "ended"
  /\ okById = [i \in TaskIds |-> 0]
  /\ incCount = [i \in TaskIds |-> 0]
  /\ plainDeleted = {}

\* ------------------------------------------------------------- bookkeeping
hist == <<okById, incCount, plainDeleted>>

\* no call is in flight
Quiescent == \A r \in Reqs : ~InFlight(req, r)

\* slot r starts the call rec
StartCall(rq, r, rec) == [Settle(rq) EXCEPT ![r] = rec]
\* the call in slot r goes on as rec
Step(rq, r, rec) == [Settle(rq) EXCEPT ![r] = rec]

\* the call of slot r added 1 to the counter: the other completeTask calls that
\* have added theirs see one more increment of a peer
Bump(rq, r) ==
  [q \in Reqs |->
     IF q # r /\ rq[q].op = "completeTask" /\ rq[q].incremented
     THEN [rq[q] EXCEPT !.othersInc = @ + 1] ELSE rq[q]]

Counted(id) == [incCount EXCEPT ![id] = @ + 1]

\* completeTask calls that may still add to the counter
Pending == {q \in Reqs : InFlight(req, q) /\ req[q].op = "completeTask"
                          /\ ~req[q].incremented}
CanComplete == (IF stats = NoStats THEN 0 ELSE stats) + Cardinality(Pending) < MaxCompleted

\* details: error.message is part of the 500 bodies of part_000 and part_001 only
Details(msg) == IF rev \in {"part_000", "part_001"} THEN msg ELSE ""

\* again: a completeTask call for the same taskId was answered 200 before
NewCall(op, id) ==
  [IdleReq EXCEPT !.op = op, !.taskId = id,
                  !.again = op = "completeTask" /\ id # 0 /\ okById[id] > 0]

\* the catch block of POST /api/tasks/complete: every thrown error is answered alike
CompleteFailed(msg) == Err(500, "Failed to complete task", Details(msg))

\* ------------------------------------------------------------- listTasks
\* GET /api/tasks (the same in every revision)
listTasks(r, fail) ==
  /\ Free(r)
  /\ LET res == SelectTasks(tasks, fail)
         resp == IF res.error # NoError
                 THEN Err(500, "Failed to fetch tasks", Details(res.error))
                 ELSE Json(200, NoStats, NoTask, res.data)
     IN req' = StartCall(req, r, [NewCall("listTasks", 0) EXCEPT
                                     !.pc = "done", !.sent = @ + 1,
                                     !.resp = resp, !.faulted = fail])
  /\ UNCHANGED <<rev, tasks, stats, nextId, initPc, hist>>

\* ------------------------------------------------------------- addTask
\* a faulty test: it sees the number 0 and lets undefined through
FalsyZeroOnly(d) == d.t = "number" /\ d.v = 0

\* !x of JS for a duration value: undefined and 0 are falsy ('abc' is not)
Falsy(d) == d.t = "undefined" \/ (d.t = "number" /\ d.v = 0)
\* parseInt(duration)
ParseInt(d) == IF d.t = "number" THEN Num((d.v \div 100) * 100) ELSE NaN
\* Math.round(parseFloat(duration) * 60): the nearest whole number, a half up
RoundSeconds(d) ==
  IF d.t = "number" THEN Num(((d.v * 60 + 50) \div 100) * 100) ELSE NaN
\* Array.isArray(tags) && tags.length > 0 ? tags : ['general']
TaskTags(tg) == IF tg.given /\ Len(tg.list) > 0 THEN tg.list ELSE <<"general">>
\* const { tags = ['general'] } = req.body
DefaultTags(tg) == IF tg.given THEN tg.list ELSE <<"general">>

\* const { title, duration, tags } = req.body
AddCall(title, duration, tags) ==
  [NewCall("addTask", 0) EXCEPT !.title = title, !.duration = duration, !.tags = tags]

\* the shared tail of the four addTask handlers: insert and answer
AddAnswer(r, call, res, fail) ==
  /\ tasks' = res.tasks
  /\ nextId' = IF res.error = NoError THEN nextId + 1 ELSE nextId
  /\ req' = StartCall(req, r, [call EXCEPT
              !.pc = "done", !.sent = @ + 1, !.faulted = fail, !.issued = TRUE,
              !.resp = IF res.error # NoError
                       THEN Err(500, "Failed to add task", Details(res.error))
                       ELSE Json(201, NoStats, res.data, <<>>)])

\* return res.status(400).json(...)
AddReject(r, call) ==
  /\ req' = StartCall(req, r, [call EXCEPT
              !.pc = "done", !.sent = @ + 1,
              !.resp = Err(400, "Title and duration are required", "")])
  /\ UNCHANGED <<tasks, nextId>>

\* POST /api/tasks of part_000
addTask_part000(r, title, duration, tags, nullable, fail) ==
  /\ rev = "part_000" /\ Free(r) /\ nextId <= MaxId
  /\ IF title = "" \/ Falsy(duration) THEN AddReject(r, AddCall(title, duration, tags))
     ELSE AddAnswer(r, AddCall(title, duration, tags),
                    InsertDuration(tasks, nextId, title, ParseInt(duration),
                                   TaskTags(tags), nullable, fail), fail)
  /\ UNCHANGED <<rev, stats, initPc, hist>>

\* POST /api/tasks of part_001
addTask_part001(r, title, duration, tags, nullable, fail) ==
  /\ rev = "part_001" /\ Free(r) /\ nextId <= MaxId
  /\ IF title = "" \/ Falsy(duration) THEN AddReject(r, AddCall(title, duration, tags))
     ELSE AddAnswer(r, AddCall(title, duration, tags),
                    InsertDuration(tasks, nextId, title, duration,
                                   TaskTags(tags), nullable, fail), fail)
  /\ UNCHANGED <<rev, stats, initPc, hist>>

\* POST /api/tasks of index.js, first revision
addTask_index_a(r, title, duration, tags, nullable, fail) ==
  /\ rev = "index_a" /\ Free(r) /\ nextId <= MaxId
  /\ IF title = "" \/ Falsy(duration) THEN AddReject(r, AddCall(title, duration, tags))
     ELSE AddAnswer(r, AddCall(title, duration, tags),
                    InsertDuration(tasks, nextId, title, duration,
                                   DefaultTags(tags), nullable, fail), fail)
  /\ UNCHANGED <<rev, stats, initPc, hist>>

\* POST /api/tasks of index.js, second revision
addTask_index_b(r, title, duration, tags, nullable, fail) ==
  /\ rev = "index_b" /\ Free(r) /\ nextId <= MaxId
  /\ IF title = "" \/ duration.t = "undefined"
     THEN AddReject(r, AddCall(title, duration, tags))
     ELSE AddAnswer(r, AddCall(title, duration, tags),
                    InsertDuration(tasks, nextId, title, RoundSeconds(duration),
                                   DefaultTags(tags), nullable, fail), fail)
  /\ UNCHANGED <<rev, stats, initPc, hist>>

\* ------------------------------------------------------------- deleteTask
\* the answer of a deleteTask call that reached its delete
DeleteAnswer(rq, r, id, res, task) ==
  /\ tasks' = res.tasks
  /\ plainDeleted' = IF res.error = NoError /\ id \in Ids(tasks)
                     THEN plainDeleted \cup {id} ELSE plainDeleted
  /\ req' = Step(rq, r, [rq[r] EXCEPT
              !.pc = "done", !.sent = @ + 1, !.delFailed = res.error # NoError,
              !.removed = res.error = NoError /\ id \in Ids(tasks),
              !.resp = IF res.error # NoError
                       THEN Err(500, "Failed to delete task", res.error)
                       ELSE Json(200, NoStats, task, <<>>)])

\* DELETE /api/tasks/:id of part_000: the lookup
deleteTask_find_part000(r, id, fail) ==
  /\ rev = "part_000" /\ Free(r)
  /\ LET res == SelectTask(tasks, id, fail)
         call == [NewCall("deleteTask", id) EXCEPT !.faulted = fail]
     IN req' = StartCall(req, r,
                 IF res.error # NoError \/ res.data = NoTask
                 THEN [call EXCEPT !.pc = "done", !.sent = @ + 1,
                                   !.resp = Err(404, "Task not found", "")]
                 ELSE [call EXCEPT !.pc = "delete", !.task = res.data, !.found = TRUE])
  /\ UNCHANGED <<rev, tasks, stats, nextId, initPc, hist>>

\* DELETE /api/tasks/:id of part_000: the delete and the answer
deleteTask_delete_part000(r, fail) ==
  /\ rev = "part_000" /\ req[r].op = "deleteTask" /\ req[r].pc = "delete"
  /\ DeleteAnswer([req EXCEPT ![r] = [@ EXCEPT !.faulted = @ \/ fail]], r, req[r].taskId,
                  DeleteTaskRow(tasks, req[r].taskId, fail), req[r].task)
  /\ UNCHANGED <<rev, stats, nextId, initPc, okById, incCount>>

\* DELETE /api/tasks/:id of part_001: no lookup
deleteTask_part001(r, id, fail) ==
  /\ rev = "part_001" /\ Free(r)
  /\ DeleteAnswer([req EXCEPT ![r] = [NewCall("deleteTask", id) EXCEPT
                     !.faulted = fail, !.found = id \in Ids(tasks)]], r, id,
                  DeleteTaskRow(tasks, id, fail), NoTask)
  /\ UNCHANGED <<rev, stats, nextId, initPc, okById, incCount>>

\* ------------------------------------------------------------- completeTask
\* a faulty handler without try/catch: a thrown error ends the call unanswered
AnswerUncaught(rq, r, resp) ==
  /\ req' = Step(rq, r, IF resp.status = 500 THEN [rq[r] EXCEPT !.pc = "done"]
                        ELSE [rq[r] EXCEPT !.pc = "done", !.sent = @ + 1, !.resp = resp])
  /\ okById' = IF resp.status = 200
               THEN [okById EXCEPT ![rq[r].taskId] = @ + 1] ELSE okById

\* the answer of a completeTask call, with the history it leaves
Answer(rq, r, resp) ==
  /\ req' = Step(rq, r, [rq[r] EXCEPT !.pc = "done", !.sent = @ + 1, !.resp = resp])
  /\ okById' = IF resp.status = 200
               THEN [okById EXCEPT ![rq[r].taskId] = @ + 1] ELSE okById

\* the delete step of a completeTask call, as the history records it
Deleting(r, res, fail) ==
  [req EXCEPT ![r] = [@ EXCEPT
     !.faulted = @ \/ fail, !.delFailed = res.error # NoError,
     !.removed = res.error = NoError /\ req[r].taskId \in Ids(tasks)]]

\* POST /api/tasks/complete of part_000: taskId check and lookup
completeTask_find_part000(r, id, fail) ==
  /\ rev = "part_000" /\ Free(r) /\ CanComplete
  /\ LET res == SelectTask(tasks, id, fail)
         call == NewCall("completeTask", id)
     IN req' = StartCall(req, r,
                 IF id = 0
                 THEN [call EXCEPT !.pc = "done", !.sent = @ + 1,
                                   !.resp = Err(400, "Task ID is required", "")]
                 ELSE IF res.error # NoError \/ res.data = NoTask
                 THEN [call EXCEPT !.pc = "done", !.sent = @ + 1, !.faulted = fail,
                                   !.resp = Err(404, "Task not found", "")]
                 ELSE [call EXCEPT !.pc = "update", !.task = res.data, !.found = TRUE])
  /\ UNCHANGED <<rev, tasks, stats, nextId, initPc, hist>>

\* POST /api/tasks/complete of part_000: the increment; on statsError the
\* handler goes on to create the record
completeTask_update_part000(r, fail) ==
  /\ rev = "part_000" /\ req[r].op = "completeTask" /\ req[r].pc = "update"
  /\ LET res == UpdateIncrement(stats, fail)
         me == [req[r] EXCEPT !.pre = stats, !.updated = TRUE, !.faulted = @ \/ fail]
     IN /\ stats' = res.stats
        /\ IF res.error # NoError
           THEN /\ req' = Step(req, r, [me EXCEPT !.pc = "insert"])
                /\ UNCHANGED incCount
           ELSE /\ req' = Step(Bump(req, r), r, [me EXCEPT
                             !.pc = "delete", !.statsData = res.data, !.incremented = TRUE])
                /\ incCount' = Counted(req[r].taskId)
  /\ UNCHANGED <<rev, tasks, nextId, initPc, okById, plainDeleted>>

\* POST /api/tasks/complete of part_000: create the record with count 1
completeTask_insert_part000(r, fail) ==
  /\ rev = "part_000" /\ req[r].op = "completeTask" /\ req[r].pc = "insert"
  /\ LET res == InsertStats(stats, 1, fail)
         me == [req[r] EXCEPT !.faulted = @ \/ fail]
     IN /\ stats' = res.stats
        /\ IF res.error # NoError
           THEN /\ Answer([req EXCEPT ![r] = me], r,
                          CompleteFailed(res.error))
                /\ UNCHANGED incCount
           ELSE /\ req' = Step(req, r, [me EXCEPT
                             !.pc = "delete", !.statsData = res.data, !.incremented = TRUE])
                /\ incCount' = Counted(req[r].taskId)
                /\ UNCHANGED okById
  /\ UNCHANGED <<rev, tasks, nextId, initPc, plainDeleted>>

\* POST /api/tasks/complete of part_000: delete the task and answer (both
\* branches: after the insert, and after the update)
completeTask_delete_part000(r, fail) ==
  /\ rev = "part_000" /\ req[r].op = "completeTask" /\ req[r].pc = "delete"
  /\ LET res == DeleteTaskRow(tasks, req[r].taskId, fail)
     IN /\ tasks' = res.tasks
        /\ Answer(Deleting(r, res, fail), r,
                  IF res.error # NoError
                  THEN CompleteFailed(res.error)
                  ELSE Json(200, req[r].statsData, req[r].task, <<>>))
  /\ UNCHANGED <<rev, stats, nextId, initPc, incCount, plainDeleted>>

\* POST /api/tasks/complete of index.js (both revisions): taskId check and lookup
completeTask_find_index(r, id, fail) ==
  /\ rev \in {"index_a", "index_b"} /\ Free(r) /\ CanComplete
  /\ LET res == SelectTask(tasks, id, fail)
         call == NewCall("completeTask", id)
     IN req' = StartCall(req, r,
                 IF id = 0
                 THEN [call EXCEPT !.pc = "done", !.sent = @ + 1,
                                   !.resp = Err(400, "Task ID required", "")]
                 ELSE IF res.error # NoError \/ res.data = NoTask
                 THEN [call EXCEPT !.pc = "done", !.sent = @ + 1, !.faulted = fail,
                                   !.resp = Err(404, "Task not found", "")]
                 ELSE [call EXCEPT !.pc = "update", !.task = res.data, !.found = TRUE])
  /\ UNCHANGED <<rev, tasks, stats, nextId, initPc, hist>>

\* POST /api/tasks/complete of index.js: the increment; its error is not read
completeTask_update_index(r, fail) ==
  /\ rev \in {"index_a", "index_b"} /\ req[r].op = "completeTask" /\ req[r].pc = "update"
  /\ LET res == UpdateIncrement(stats, fail)
         me == [req[r] EXCEPT !.pre = stats, !.updated = TRUE, !.faulted = @ \/ fail,
                              !.pc = "delete", !.statsData = res.data]
     IN /\ stats' = res.stats
        /\ IF res.error # NoError
           THEN /\ req' = Step(req, r, me)
                /\ UNCHANGED incCount
           ELSE /\ req' = Step(Bump(req, r), r, [me EXCEPT !.incremented = TRUE])
                /\ incCount' = Counted(req[r].taskId)
  /\ UNCHANGED <<rev, tasks, nextId, initPc, okById, plainDeleted>>

\* POST /api/tasks/complete of index.js: delete the task and answer;
\* stats.completed_tasks of a null stats throws into the catch
completeTask_delete_index(r, fail) ==
  /\ rev \in {"index_a", "index_b"} /\ req[r].op = "completeTask" /\ req[r].pc = "delete"
  /\ LET res == DeleteTaskRow(tasks, req[r].taskId, fail)
     IN /\ tasks' = res.tasks
        /\ Answer(Deleting(r, res, fail), r,
                  IF res.error # NoError \/ req[r].statsData = NoStats
                  THEN CompleteFailed(res.error)
                  ELSE Json(200, req[r].statsData, req[r].task, <<>>))
  /\ UNCHANGED <<rev, stats, nextId, initPc, incCount, plainDeleted>>

\* POST /api/tasks/complete of part_001: taskId check and increment, no lookup
completeTask_update_part001(r, id, fail) ==
  /\ rev = "part_001" /\ Free(r) /\ CanComplete
  /\ LET res == UpdateIncrement(stats, fail)
         call == NewCall("completeTask", id)
         me == [call EXCEPT !.pre = stats, !.updated = TRUE, !.faulted = fail,
                            !.found = id \in Ids(tasks)]
     IN IF id = 0
        THEN /\ req' = StartCall(req, r, [call EXCEPT
                         !.pc = "done", !.sent = @ + 1,
                         !.resp = Err(400, "Task ID is required", "")])
             /\ UNCHANGED <<stats, incCount, okById>>
        ELSE IF res.error # NoError
        THEN /\ Answer([req EXCEPT ![r] = me], r,
                       CompleteFailed(res.error))
             /\ UNCHANGED <<stats, incCount>>
        ELSE /\ req' = StartCall(Bump(req, r), r, [me EXCEPT
                         !.pc = "delete", !.statsData = res.data, !.incremented = TRUE])
             /\ stats' = res.stats
             /\ incCount' = Counted(id)
             /\ UNCHANGED okById
  /\ UNCHANGED <<rev, tasks, nextId, initPc, plainDeleted>>

\* POST /api/tasks/complete of part_001: delete the task and answer
completeTask_delete_part001(r, fail) ==
  /\ rev = "part_001" /\ req[r].op = "completeTask" /\ req[r].pc = "delete"
  /\ LET res == DeleteTaskRow(tasks, req[r].taskId, fail)
     IN /\ tasks' = res.tasks
        /\ Answer(Deleting(r, res, fail), r,
                  IF res.error # NoError
                  THEN CompleteFailed(res.error)
                  ELSE Json(200, req[r].statsData, NoTask, <<>>))
  /\ UNCHANGED <<rev, stats, nextId, initPc, incCount, plainDeleted>>

\* ------------------------------------------------------------- getStats
\* GET /api/tasks/stats of part_000.  .single() answers a query without a row
\* with an error, so the handler throws before it reads !data; the branch that
\* creates the record is kept as the code has it.
getStats_part000(r, fail, failCreate) ==
  /\ rev = "part_000" /\ Free(r)
  /\ LET res == SelectStats(stats, fail)
         created == InsertStats(stats, 0, failCreate)
         call == [NewCall("getStats", 0) EXCEPT !.pc = "done", !.sent = @ + 1, !.pre = stats]
     IN IF res.error # NoError
        THEN /\ req' = StartCall(req, r, [call EXCEPT !.faulted = fail,
                         !.resp = Err(500, "Failed to fetch stats", res.error)])
             /\ UNCHANGED stats
        ELSE IF res.data = NoStats
        THEN /\ stats' = created.stats
             /\ req' = StartCall(req, r, [call EXCEPT !.faulted = failCreate,
                         !.resp = IF created.error # NoError
                                  THEN Err(500, "Failed to fetch stats", created.error)
                                  ELSE Json(200, created.data, NoTask, <<>>)])
        ELSE /\ req' = StartCall(req, r, [call EXCEPT
                         !.resp = Json(200, res.data, NoTask, <<>>)])
             /\ UNCHANGED stats
  /\ UNCHANGED <<rev, tasks, nextId, initPc, hist>>

\* GET /api/tasks/stats of index.js (both revisions)
getStats_index(r, fail) ==
  /\ rev \in {"index_a", "index_b"} /\ Free(r)
  /\ LET res == SelectStats(stats, fail)
         call == [NewCall("getStats", 0) EXCEPT !.pc = "done", !.sent = @ + 1, !.pre = stats,
                                                !.faulted = fail]
     IN req' = StartCall(req, r, [call EXCEPT
                 !.resp = IF res.error # NoError
                          THEN Err(500, "Failed to fetch stats", "")
                          ELSE Json(200, res.data, NoTask, <<>>)])
  /\ UNCHANGED <<rev, tasks, stats, nextId, initPc, hist>>

\* GET /api/tasks/stats of part_001
getStats_part001(r, fail) ==
  /\ rev = "part_001" /\ Free(r)
  /\ LET res == SelectStats(stats, fail)
         call == [NewCall("getStats", 0) EXCEPT !.pc = "done", !.sent = @ + 1, !.pre = stats,
                                                !.faulted = fail]
     IN req' = StartCall(req, r, [call EXCEPT
                 !.resp = IF res.error # NoError
                          THEN Err(500, "Failed to fetch stats", res.error)
                          ELSE Json(200, res.data, NoTask, <<>>)])
  /\ UNCHANGED <<rev, tasks, stats, nextId, initPc, hist>>

\* ------------------------------------------------------------- initializeData
\* supabase.from('tasks').select('*').limit(1)
SelectOneTask(tbl, fail) ==
  IF fail THEN [data |-> <<>>, error |-> Unavailable]
  ELSE IF tbl = {} THEN [data |-> <<>>, error |-> NoError]
  ELSE [data |-> <<CHOOSE t \in tbl : TRUE>>, error |-> NoError]

\* the sample row: { title: 'Sample Task', duration: 25, tags: ['quick-win'] }
SampleTask(tbl, id, fail) == InsertTask(tbl, id, "Sample Task", 2500, <<"quick-win">>, fail)

\* initializeData of part_000: is the default stats record there?
initializeData_statsCheck(fail) ==
  /\ rev = "part_000" /\ initPc = "stats_check"
  /\ LET res == SelectStats(stats, fail)
     IN initPc' = IF res.error # NoError \/ res.data = NoStats
                  THEN "stats_insert" ELSE "tasks_check"
  /\ req' = Settle(req)
  /\ UNCHANGED <<rev, tasks, stats, nextId, hist>>

\* a faulty start: the default record is written whatever the store holds
initializeData_statsReset(fail) ==
  /\ rev = "part_000" /\ initPc = "stats_insert"
  /\ stats' = IF fail THEN stats ELSE 0
  /\ initPc' = IF fail THEN "ended" ELSE "tasks_check"
  /\ req' = Settle(req)
  /\ UNCHANGED <<rev, tasks, nextId, hist>>

\* initializeData of part_000: create the default stats record with count 0
initializeData_statsInsert(fail) ==
  /\ rev = "part_000" /\ initPc = "stats_insert"
  /\ LET res == InsertStats(stats, 0, fail)
     IN /\ stats' = res.stats
        /\ initPc' = IF res.error # NoError THEN "ended" ELSE "tasks_check"
  /\ req' = Settle(req)
  /\ UNCHANGED <<rev, tasks, nextId, hist>>

\* initializeData of part_000: is the tasks table empty?
initializeData_tasksCheck(fail) ==
  /\ rev = "part_000" /\ initPc = "tasks_check"
  /\ LET res == SelectOneTask(tasks, fail)
     IN initPc' = IF res.error # NoError \/ Len(res.data) # 0
                  THEN "ended" ELSE "sample_insert"
  /\ req' = Settle(req)
  /\ UNCHANGED <<rev, tasks, stats, nextId, hist>>

\* initializeData of part_000: add the sample task
initializeData_sampleInsert(fail) ==
  /\ rev = "part_000" /\ initPc = "sample_insert" /\ nextId <= MaxId
  /\ LET res == SampleTask(tasks, nextId, fail)
     IN /\ tasks' = res.tasks
        /\ nextId' = IF res.error = NoError THEN nextId + 1 ELSE nextId
        /\ initPc' = "ended"
  /\ req' = Settle(req)
  /\ UNCHANGED <<rev, stats, hist>>

\* initializeData of part_001: is the tasks table empty? (an error ends it)
initializeData_tasksCheck_part001(fail) ==
  /\ rev = "part_001" /\ initPc = "tasks_check"
  /\ LET res == SelectOneTask(tasks, fail)
     IN initPc' = IF res.error # NoError \/ Len(res.data) # 0
                  THEN "ended" ELSE "sample_insert"
  /\ req' = Settle(req)
  /\ UNCHANGED <<rev, tasks, stats, nextId, hist>>

\* initializeData of part_001: add the sample task (an error is logged)
initializeData_sampleInsert_part001(fail) ==
  /\ rev = "part_001" /\ initPc = "sample_insert" /\ nextId <= MaxId
  /\ LET res == SampleTask(tasks, nextId, fail)
     IN /\ tasks' = res.tasks
        /\ nextId' = IF res.error = NoError THEN nextId + 1 ELSE nextId
        /\ initPc' = "ended"
  /\ req' = Settle(req)
  /\ UNCHANGED <<rev, stats, hist>>

\* ------------------------------------------------------------- specification
Next ==
  \/ \E r \in Reqs, fail \in BOOLEAN : listTasks(r, fail)
  \/ \E r \in Reqs, title \in TitleInputs, duration \in DurationInputs,
        tags \in TagInputs, fail \in BOOLEAN :
          addTask_part000(r, title, duration, tags, FALSE, fail)
  \/ \E r \in Reqs, title \in TitleInputs, duration \in DurationInputs,
        tags \in TagInputs, fail \in BOOLEAN :
          addTask_part001(r, title, duration, tags, FALSE, fail)
  \/ \E r \in Reqs, title \in TitleInputs, duration \in DurationInputs,
        tags \in TagInputs, fail \in BOOLEAN :
          addTask_index_a(r, title, duration, tags, FALSE, fail)
  \/ \E r \in Reqs, title \in TitleInputs, duration \in DurationInputs,
        tags \in TagInputs, fail \in BOOLEAN :
          addTask_index_b(r, title, duration, tags, FALSE, fail)
  \/ \E r \in Reqs, id \in TaskIds, fail \in BOOLEAN : deleteTask_find_part000(r, id, fail)
  \/ \E r \in Reqs, fail \in BOOLEAN : deleteTask_delete_part000(r, fail)
  \/ \E r \in Reqs, id \in TaskIds, fail \in BOOLEAN : deleteTask_part001(r, id, fail)
  \/ \E r \in Reqs, id \in TaskIdInputs, fail \in BOOLEAN :
        completeTask_find_part000(r, id, fail)
  \/ \E r \in Reqs, fail \in BOOLEAN : completeTask_update_part000(r, fail)
  \/ \E r \in Reqs, fail \in BOOLEAN : completeTask_insert_part000(r, fail)
  \/ \E r \in Reqs, fail \in BOOLEAN : completeTask_delete_part000(r, fail)
  \/ \E r \in Reqs, id \in TaskIdInputs, fail \in BOOLEAN :
        completeTask_find_index(r, id, fail)
  \/ \E r \in Reqs, fail \in BOOLEAN : completeTask_update_index(r, fail)
  \/ \E r \in Reqs, fail \in BOOLEAN : completeTask_delete_index(r, fail)
  \/ \E r \in Reqs, id \in TaskIdInputs, fail \in BOOLEAN :
        completeTask_update_part001(r, id, fail)
  \/ \E r \in Reqs, fail \in BOOLEAN : completeTask_delete_part001(r, fail)
  \/ \E r \in Reqs, fail \in BOOLEAN, failCreate \in BOOLEAN :
        getStats_part000(r, fail, failCreate)
  \/ \E r \in Reqs, fail \in BOOLEAN : getStats_index(r, fail)
  \/ \E r \in Reqs, fail \in BOOLEAN : getStats_part001(r, fail)
  \/ \E fail \in BOOLEAN : initializeData_statsCheck(fail)
  \/ \E fail \in BOOLEAN : initializeData_statsInsert(fail)
  \/ \E fail \in BOOLEAN : initializeData_tasksCheck(fail)
  \/ \E fail \in BOOLEAN : initializeData_sampleInsert(fail)
  \/ \E fail \in BOOLEAN : initializeData_tasksCheck_part001(fail)
  \/ \E fail \in BOOLEAN : initializeData_sampleInsert_part001(fail)

Spec == Init /\ [][Next]_vars

\* ------------------------------------------------------------- completion races
\* the row addTask of revision rv stores for { title: 'a', duration: 2 }
AddedRow(rv, id) ==
  InsertTask({}, id, "a",
             IF rv = "index_b" THEN RoundSeconds(Num(200)).v
             ELSE IF rv = "part_000" THEN ParseInt(Num(200)).v ELSE Num(200).v,
             <<"general">>, FALSE).data

\* a store that holds MaxId tasks, initializeData over, no call in flight
InitRace ==
  /\ rev \in Revisions
  /\ tasks = {AddedRow(rev, i) : i \in TaskIds}
  /\ stats \in {NoStats, 0}
  /\ nextId = MaxId + 1
  /\ req = [r \in Reqs |-> IdleReq]
  /\ initPc = "ended"
  /\ okById = [i \in TaskIds |-> 0]
  /\ incCount = [i \in TaskIds |-> 0]
  /\ plainDeleted = {}

\* only completeTask calls arrive
NextRace ==
  \/ \E r \in Reqs, id \in TaskIdInputs, fail \in BOOLEAN :
        completeTask_find_part000(r, id, fail)
  \/ \E r \in Reqs, fail \in BOOLEAN : completeTask_update_part000(r, fail)
  \/ \E r \in Reqs, fail \in BOOLEAN : completeTask_insert_part000(r, fail)
  \/ \E r \in Reqs, fail \in BOOLEAN : completeTask_delete_part000(r, fail)
  \/ \E r \in Reqs, id \in TaskIdInputs, fail \in BOOLEAN :
        completeTask_find_index(r, id, fail)
  \/ \E r \in Reqs, fail \in BOOLEAN : completeTask_update_index(r, fail)
  \/ \E r \in Reqs, fail \in BOOLEAN : completeTask_delete_index(r, fail)
  \/ \E r \in Reqs, id \in TaskIdInputs, fail \in BOOLEAN :
        completeTask_update_part001(r, id, fail)
  \/ \E r \in Reqs, fail \in BOOLEAN : completeTask_delete_part001(r, fail)

SpecRace == InitRace /\ [][NextRace]_vars

\* ------------------------------------------------------------- adding tasks
\* the bodies POST /api/tasks is called with: durations undefined, 0, 0.01,
\* 1.5, 2 and 'abc'; tags omitted, [] and ['x']
AddDurationInputs == {Undef, Num(0), Num(1), Num(150), Num(200), Str}
AddTagInputs == {NoTags, Tags(<<>>), Tags(<<"x">>)}

\* an empty store, initializeData over, no call in flight
InitAdd ==
  /\ rev \in Revisions
  /\ tasks = {}
  /\ stats \in {NoStats, 0}
  /\ nextId = 1
  /\ req = [r \in Reqs |-> IdleReq]
  /\ initPc = "ended"
  /\ okById = [i \in TaskIds |-> 0]
  /\ incCount = [i \in TaskIds |-> 0]
  /\ plainDeleted = {}

\* only addTask calls arrive
NextAdd ==
  \/ \E r \in Reqs, title \in TitleInputs, duration \in AddDurationInputs,
        tags \in AddTagInputs, nullable \in BOOLEAN, fail \in BOOLEAN :
          addTask_part000(r, title, duration, tags, nullable, fail)
  \/ \E r \in Reqs, title \in TitleInputs, duration \in AddDurationInputs,
        tags \in AddTagInputs, nullable \in BOOLEAN, fail \in BOOLEAN :
          addTask_part001(r, title, duration, tags, nullable, fail)
  \/ \E r \in Reqs, title \in TitleInputs, duration \in AddDurationInputs,
        tags \in AddTagInputs, nullable \in BOOLEAN, fail \in BOOLEAN :
          addTask_index_a(r, title, duration, tags, nullable, fail)
  \/ \E r \in Reqs, title \in TitleInputs, duration \in AddDurationInputs,
        tags \in AddTagInputs, nullable \in BOOLEAN, fail \in BOOLEAN :
          addTask_index_b(r, title, duration, tags, nullable, fail)

SpecAdd == InitAdd /\ [][NextAdd]_vars

\* ------------------------------------------------------------- the stats record
\* the server starts on a store that holds tasks already: initializeData runs
\* while requests arrive
InitStats ==
  /\ rev \in Revisions
  /\ tasks = {AddedRow(rev, i) : i \in 1..(MaxId - 1)}
  /\ stats \in {NoStats, 0}
  /\ nextId = MaxId
  /\ req = [r \in Reqs |-> IdleReq]
  /\ initPc = IF rev = "part_000" THEN "stats_check"
              ELSE IF rev = "part_001" THEN "tasks_check" ELSE "ended"
  /\ okById = [i \in TaskIds |-> 0]
  /\ incCount = [i \in TaskIds |-> 0]
  /\ plainDeleted = {}

\* the calls that read or write the stats record arrive: completeTask and
\* getStats (listTasks, addTask and deleteTask issue no call on table stats)
NextStats ==
  \/ NextRace
  \/ \E r \in Reqs, fail \in BOOLEAN, failCreate \in BOOLEAN :
        getStats_part000(r, fail, failCreate)
  \/ \E r \in Reqs, fail \in BOOLEAN : getStats_index(r, fail)
  \/ \E r \in Reqs, fail \in BOOLEAN : getStats_part001(r, fail)
  \/ \E fail \in BOOLEAN : initializeData_statsCheck(fail)
  \/ \E fail \in BOOLEAN : initializeData_statsInsert(fail)
  \/ \E fail \in BOOLEAN : initializeData_tasksCheck(fail)
  \/ \E fail \in BOOLEAN : initializeData_sampleInsert(fail)
  \/ \E fail \in BOOLEAN : initializeData_tasksCheck_part001(fail)
  \/ \E fail \in BOOLEAN : initializeData_sampleInsert_part001(fail)

SpecStats == InitStats /\ [][NextStats]_vars

\* ------------------------------------------------------------- one call at a time
\* the server as in Spec, its requests arriving one after the other: a call is
\* accepted when no call is in flight; initializeData runs alongside
NextServe ==
  \/ \E r \in Reqs, fail \in BOOLEAN : Quiescent /\ listTasks(r, fail)
  \/ \E r \in Reqs, title \in TitleInputs, duration \in DurationInputs,
        tags \in TagInputs, fail \in BOOLEAN :
          Quiescent /\ addTask_part000(r, title, duration, tags, FALSE, fail)
  \/ \E r \in Reqs, title \in TitleInputs, duration \in DurationInputs,
        tags \in TagInputs, fail \in BOOLEAN :
          Quiescent /\ addTask_part001(r, title, duration, tags, FALSE, fail)
  \/ \E r \in Reqs, title \in TitleInputs, duration \in DurationInputs,
        tags \in TagInputs, fail \in BOOLEAN :
          Quiescent /\ addTask_index_a(r, title, duration, tags, FALSE, fail)
  \/ \E r \in Reqs, title \in TitleInputs, duration \in DurationInputs,
        tags \in TagInputs, fail \in BOOLEAN :
          Quiescent /\ addTask_index_b(r, title, duration, tags, FALSE, fail)
  \/ \E r \in Reqs, id \in TaskIds, fail \in BOOLEAN :
        Quiescent /\ deleteTask_find_part000(r, id, fail)
  \/ \E r \in Reqs, fail \in BOOLEAN : deleteTask_delete_part000(r, fail)
  \/ \E r \in Reqs, id \in TaskIds, fail \in BOOLEAN :
        Quiescent /\ deleteTask_part001(r, id, fail)
  \/ \E r \in Reqs, id \in TaskIdInputs, fail \in BOOLEAN :
        Quiescent /\ completeTask_find_part000(r, id, fail)
  \/ \E r \in Reqs, fail \in BOOLEAN : completeTask_update_part000(r, fail)
  \/ \E r \in Reqs, fail \in BOOLEAN : completeTask_insert_part000(r, fail)
  \/ \E r \in Reqs, fail \in BOOLEAN : completeTask_delete_part000(r, fail)
  \/ \E r \in Reqs, id \in TaskIdInputs, fail \in BOOLEAN :
        Quiescent /\ completeTask_find_index(r, id, fail)
  \/ \E r \in Reqs, fail \in BOOLEAN : completeTask_update_index(r, fail)
  \/ \E r \in Reqs, fail \in BOOLEAN : completeTask_delete_index(r, fail)
  \/ \E r \in Reqs, id \in TaskIdInputs, fail \in BOOLEAN :
        Quiescent /\ completeTask_update_part001(r, id, fail)
  \/ \E r \in Reqs, fail \in BOOLEAN : completeTask_delete_part001(r, fail)
  \/ \E r \in Reqs, fail \in BOOLEAN, failCreate \in BOOLEAN :
        Quiescent /\ getStats_part000(r, fail, failCreate)
  \/ \E r \in Reqs, fail \in BOOLEAN : Quiescent /\ getStats_index(r, fail)
  \/ \E r \in Reqs, fail \in BOOLEAN : Quiescent /\ getStats_part001(r, fail)
  \/ \E fail \in BOOLEAN : initializeData_statsCheck(fail)
  \/ \E fail \in BOOLEAN : initializeData_statsInsert(fail)
  \/ \E fail \in BOOLEAN : initializeData_tasksCheck(fail)
  \/ \E fail \in BOOLEAN : initializeData_sampleInsert(fail)
  \/ \E fail \in BOOLEAN : initializeData_tasksCheck_part001(fail)
  \/ \E fail \in BOOLEAN : initializeData_sampleInsert_part001(fail)

SpecServe == Init /\ [][NextServe]_vars

\* ------------------------------------------------------------- claims
Done(r) == req[r].pc = "done"
Completing(r) == req[r].op = "completeTask"
RECURSIVE SumTo(_, _)
SumTo(f, n) == IF n = 0 THEN 0 ELSE f[n] + SumTo(f, n - 1)
OkCount == SumTo(okById, MaxId)

\* C1: completeTask calls on existing tasks, the stats record present and no
\* gateway failure: every call is answered 200, its task is gone, and the counter
\* is the value the call found plus its own 1 plus 1 for every increment of
\* another call since (two concurrent calls: prior value + 2, never + 1).
C1_NoLostUpdate ==
  \A r \in Reqs :
    Completing(r) /\ req[r].pre # NoStats =>
      /\ req[r].incremented => stats = req[r].pre + 1 + req[r].othersInc
      /\ Done(r) /\ req[r].found /\ ~req[r].faulted =>
           /\ req[r].resp.status = 200
           /\ req[r].incremented
           /\ req[r].taskId \notin Ids(tasks)

\* two calls on distinct existing tasks overlapped, both were answered 200, both
\* tasks are gone and the counter is the value the first one found plus 2
C1_Witness ==
  \E r \in Reqs, id \in TaskIds :
    /\ Completing(r) /\ Done(r) /\ req[r].found /\ ~req[r].faulted
    /\ req[r].resp.status = 200 /\ req[r].othersInc = 1
    /\ id # req[r].taskId
    /\ okById[id] = 1 /\ okById[req[r].taskId] = 1
    /\ incCount[id] = 1 /\ incCount[req[r].taskId] = 1
    /\ {id, req[r].taskId} \cap Ids(tasks) = {}
    /\ stats = req[r].pre + 2

\* C2: of the completeTask calls that found the same existing task, one only
\* adds to the counter and one only is answered 200.
C2_SameTaskOnce ==
  /\ \A r, q \in Reqs :
       r # q /\ Completing(r) /\ Completing(q) /\ req[r].found /\ req[q].found
             /\ req[r].taskId = req[q].taskId
         => ~(req[r].incremented /\ req[q].incremented)
  /\ \A r \in Reqs :
       Completing(r) /\ Done(r) /\ req[r].found /\ req[r].resp.status = 200
         => okById[req[r].taskId] = 1

\* C3: with no request in flight, the counter equals the number of completeTask
\* calls that were answered 200.
C3_CounterIsSuccesses ==
  Quiescent /\ stats # NoStats => stats = OkCount

\* C4: a completeTask call whose taskId names no task is answered 404 and
\* changes neither the counter nor the tasks table.
C4_AbsentTaskNoEffect ==
  \A r \in Reqs :
    Completing(r) /\ Done(r) /\ req[r].taskId # 0 /\ ~req[r].found /\ ~req[r].faulted
      => /\ req[r].resp.status = 404
         /\ ~req[r].incremented
         /\ ~req[r].removed

\* C5: while a completeTask call is in progress and no other call concerns its
\* task, the task is present and not counted, or gone and counted.
C5_SingleUnit ==
  \A r \in Reqs :
    /\ Completing(r) /\ req[r].found
    /\ \A q \in Reqs \ {r} : req[q].taskId # req[r].taskId
    /\ req[r].taskId \notin plainDeleted
    => (req[r].incremented <=> req[r].taskId \notin Ids(tasks))

\* C6: a completeTask call whose increment succeeded and whose delete failed is
\* answered differently from a call stopped by any other gateway failure.
C6_InconsistencySurfaced ==
  \A r \in Reqs :
    Completing(r) /\ Done(r) /\ req[r].found /\ req[r].incremented /\ req[r].delFailed
      => req[r].resp \notin {CompleteFailed(m) : m \in {Unavailable, NoRows, Duplicate}}

\* C7: completeTask on an existing task when no stats record exists is answered
\* 200 with count 1, leaves the record with count 1 or more, and deletes the task.
C7_LazyStatsCreation ==
  \A r \in Reqs :
    Completing(r) /\ Done(r) /\ req[r].found /\ req[r].updated
                  /\ req[r].pre = NoStats /\ ~req[r].faulted
      => /\ req[r].resp.status = 200
         /\ req[r].resp.completedTasks = 1
         /\ stats # NoStats
         /\ req[r].taskId \notin Ids(tasks)

\* C8: getStats without a stats record is answered 200 with count 0 and leaves
\* the record with count 0; with a record it answers its count and changes nothing.
C8_GetStatsLazyZero ==
  \A r \in Reqs :
    req[r].op = "getStats" /\ Done(r) /\ ~req[r].faulted
      => /\ req[r].resp.status = 200
         /\ req[r].pre = NoStats => req[r].resp.completedTasks = 0 /\ stats = 0
         /\ req[r].pre # NoStats => req[r].resp.completedTasks = req[r].pre
                                    /\ stats = req[r].pre

\* C9: a completeTask call that starts after a call for the same taskId was
\* answered 200 is answered 404 and leaves the counter alone.
C9_SecondCallNotFound ==
  \A r \in Reqs :
    Completing(r) /\ Done(r) /\ req[r].again /\ ~req[r].faulted
      => /\ req[r].resp.status = 404
         /\ ~req[r].incremented

\* C10: a task that a deleteTask call removed is never counted.
C10_PlainDeleteNotCounted ==
  \A id \in plainDeleted : incCount[id] = 0

\* an addTask call that was answered by the step leading to the primed state
Added(r) == req'[r].op = "addTask" /\ req'[r].pc = "done" /\ req'[r] # req[r]

\* C11: an addTask call without title or without duration is answered 400 and
\* writes nothing: no insert is issued, tasks and stats stay as they were.
C11_RejectedWithoutWrite ==
  [][\A r \in Reqs :
       Added(r) /\ (req'[r].title = "" \/ req'[r].duration = Undef)
         => /\ req'[r].resp.status = 400
            /\ ~req'[r].issued
            /\ tasks' = tasks /\ stats' = stats /\ nextId' = nextId]_vars

\* a call with a title and no duration was answered 400 and issued no insert
C11_Witness ==
  \E r \in Reqs :
    /\ req[r].op = "addTask" /\ Done(r) /\ req[r].resp.status = 400 /\ ~req[r].issued
    /\ req[r].title = "a" /\ req[r].duration = Undef

\* an addTask call that was just answered
AddDone(r) == req[r].op = "addTask" /\ Done(r)

\* C12: an accepted addTask call stores round(minutes * 60) seconds, and the
\* call with duration 1.5 is accepted and stores 90.
C12_MinutesToSeconds ==
  \A r \in Reqs :
    AddDone(r) /\ req[r].title # "" /\ req[r].duration.t = "number" =>
      /\ req[r].resp.status = 201 =>
           /\ req[r].resp.task.duration = (req[r].duration.v * 60 + 50) \div 100
           /\ req[r].resp.task \in tasks
      /\ req[r].duration = Num(150) /\ ~req[r].faulted =>
           req[r].resp.status = 201 /\ req[r].resp.task.duration = 90

\* C14: an accepted addTask call stores ["general"] when tags is omitted or
\* empty and the given list otherwise; no stored task has an empty tag list.
C14_DefaultTags ==
  /\ \A r \in Reqs :
       AddDone(r) /\ req[r].resp.status = 201 =>
         req[r].resp.task.tags =
           IF ~req[r].tags.given \/ req[r].tags.list = <<>>
           THEN <<"general">> ELSE req[r].tags.list
  /\ \A t \in tasks : t.tags # <<>>

\* absent title, or duration absent or no number
Malformed(r) == req[r].title = "" \/ req[r].duration.t # "number"

\* C16: addTask answers 400 exactly for an absent title or a duration that is
\* absent or no number; every other call (duration 0 too) is stored and
\* answered 201, and no call whose duration is no number is stored.
C16_ValidationExact ==
  \A r \in Reqs :
    AddDone(r) /\ ~req[r].faulted =>
      /\ req[r].resp.status = 400 <=> Malformed(r)
      /\ ~Malformed(r) => req[r].resp.status = 201 /\ req[r].resp.task \in tasks
      /\ req[r].duration.t # "number" => req[r].resp.status # 201

\* C13: a deleteTask call whose id names no task is never answered 200, and
\* is answered 404 when no gateway call failed.
C13_DeleteAbsentNotFound ==
  \A r \in Reqs :
    req[r].op = "deleteTask" /\ Done(r) /\ ~req[r].found =>
      /\ req[r].resp.status # 200
      /\ ~req[r].faulted => req[r].resp.status = 404

\* C15: a completeTask call does not end with the counter incremented and its
\* task still present, nor with the task deleted and the counter not incremented.
C15_BothOrNeither ==
  \A r \in Reqs :
    Completing(r) /\ Done(r) =>
      /\ ~(req[r].incremented /\ req[r].taskId \in Ids(tasks))
      /\ ~(req[r].removed /\ ~req[r].incremented)

\* C17: a completeTask call answered 200 returns the counter value its own
\* increment (or creation) produced, which is the counter less the increments
\* of other calls since, and the task record its lookup read.
C17_OwnCounterAndTask ==
  \A r \in Reqs :
    Completing(r) /\ Done(r) /\ req[r].resp.status = 200 =>
      /\ req[r].resp.completedTasks = (IF req[r].pre = NoStats THEN 1 ELSE req[r].pre + 1)
      /\ stats = req[r].resp.completedTasks + req[r].othersInc
      /\ req[r].resp.task.id = req[r].taskId
      /\ req[r].resp.task = req[r].task

\* the step is the increment (or creation) of a completeTask call
Increments(r) ==
  /\ req'[r].op = "completeTask" /\ req'[r].incremented
  /\ req'[r].pc = "delete" /\ req[r].pc # "delete"

\* C18: once the stats record exists it is never deleted, its count is 0 or
\* more and never decreases, and a step that changes the count is the
\* increment of a completeTask call, which adds 1.
C18_StatsMonotonic ==
  [][stats # NoStats =>
       /\ stats >= 0
       /\ stats' # NoStats
       /\ stats' >= stats
       /\ stats' # stats => stats' = stats + 1 /\ \E r \in Reqs : Increments(r)]_vars

\* getStats reads the count MaxCompleted after initializeData has ended: the
\* record outlived the start-up, completions and reads
C18_Witness ==
  \E r \in Reqs :
    /\ req[r].op = "getStats" /\ Done(r) /\ req[r].resp.status = 200
    /\ req[r].resp.completedTasks = MaxCompleted /\ stats = MaxCompleted
    /\ rev = "part_000" /\ initPc = "ended"

\* the increments and creations that completeTask calls applied
Applied == SumTo(incCount, MaxId)

\* C20: a step of initializeData leaves an existing stats record as it is and,
\* when there is none, creates it with count 0 or leaves none; the count is
\* always the number of increments the completeTask calls applied.
C20_InitKeepsCount ==
  [][/\ initPc' # initPc =>
          /\ stats # NoStats => stats' = stats
          /\ stats = NoStats => stats' \in {NoStats, 0}
     /\ stats' # NoStats => stats' = SumTo(incCount', MaxId)]_vars

\* initializeData found no record while a completeTask call created it with
\* count 1; its own insert was refused and the count is still 1
C20_Witness ==
  /\ rev = "part_000" /\ initPc = "ended" /\ stats = 1 /\ Applied = 1
  /\ \E r \in Reqs : Completing(r) /\ req[r].pre = NoStats /\ req[r].incremented

\* the gateway call the handler of slot r waits for returns
Proceeds(r) ==
  \E fail \in BOOLEAN :
    \/ deleteTask_delete_part000(r, fail)
    \/ completeTask_update_part000(r, fail)
    \/ completeTask_insert_part000(r, fail)
    \/ completeTask_delete_part000(r, fail)
    \/ completeTask_update_index(r, fail)
    \/ completeTask_delete_index(r, fail)
    \/ completeTask_delete_part001(r, fail)

\* C19: a call that has ended sent one response, a call in flight has sent
\* none and goes on when its gateway call returns, whatever that call returns.
C19_OneResponse ==
  \A r \in Reqs :
    /\ Done(r) => req[r].sent = 1 /\ req[r].resp.status \in {200, 201, 400, 404, 500}
    /\ ~Done(r) => req[r].sent = 0 /\ req[r].resp = NoResp
    /\ InFlight(req, r) => ENABLED Proceeds(r)

\* index.js: the stats update returned no record, the task was deleted, the
\* read of stats.completed_tasks threw and the catch block sent the one answer
C19_Witness ==
  \E r \in Reqs :
    /\ rev = "index_a" /\ Completing(r) /\ Done(r) /\ req[r].found
    /\ req[r].updated /\ req[r].statsData = NoStats /\ req[r].removed
    /\ req[r].resp.status = 500 /\ req[r].sent = 1

====
